---- MODULE Spec2Model ----
(***************************************************************************)
(* Model of scrap.py: a Selenium crawl of dated daily bulletins followed   *)
(* by a pandas aggregation (deduplicate, prefer dated rows, sort by date   *)
(* descending, truncate, save).                                            *)
(*                                                                         *)
(* URLs are the numbers 1..NumURLs (1 is START_URL).  A title is a tuple   *)
(* of one-character strings, so that the date regex of main() is computed  *)
(* character by character.  The source sets DAYS_BACK = 30; the model      *)
(* keeps MAX_PAGES = DAYS_BACK * 2 and scales DAYS_BACK down so that both  *)
(* caps of the loop condition are reached.                                 *)
(***************************************************************************)
EXTENDS Integers, Sequences, FiniteSets, TLC

VARIABLES pc, session, quits, rows, visited, queue, url, navlog, failed,
          refound, waited, err, out, csv, saved, pass, first,
          enqlog, slept, arg, ret

vars == <<pc, session, quits, rows, visited, queue, url, navlog, failed,
          refound, waited, err, out, csv, saved, pass, first,
          enqlog, slept, arg, ret>>

\* ---------------------------------------------------------------- bounds
DAYS_BACK == 2
NumURLs == 5
MaxAnchors == 4
MaxRows == 3
MaxText == 5
MaxParts == 3

MAX_PAGES == DAYS_BACK * 2

START_URL == 1
URLs == 1..NumURLs
\* An anchor's href is one of
\*   [kind |-> "abs",  n |-> k]  the absolute URL of bulletin k, or of some
\*                               other page when k = 0;
\*   [kind |-> "path", n |-> k]  the site-relative path of bulletin k, which
\*                               holds both slug fragments as the URL does;
\*   [kind |-> "frag", n |-> 0]  a reference such as "#top" or "?p=2", which
\*                               holds no slug fragment itself.
\* An absolute URL is a number: k for bulletin k, 0 for another page, -k for
\* the URL of bulletin k followed by the fragment or query of a reference.
Hrefs == [kind : {"abs"}, n : 0..NumURLs] \cup [kind : {"path"}, n : URLs]
           \cup [kind : {"frag"}, n : {0}]

Min(a, b) == IF a < b THEN a ELSE b

\* ---------------------------------------------------------------- titles
Digits == <<"0", "1", "2", "3", "4", "5", "6", "7", "8", "9">>

IsDigit(c) == \E i \in 1..10 : Digits[i] = c

DigitVal(c) == (CHOOSE i \in 1..10 : Digits[i] = c) - 1

IsSep(c) == c \in {".", "-"}

\* int(s) of a run of digits t[a..b]
RECURSIVE IntOf(_, _, _)
IntOf(t, a, b) == IF b < a THEN 0 ELSE IntOf(t, a, b - 1) * 10 + DigitVal(t[b])

AllDigits(t, a, b) == b <= Len(t) /\ \A k \in a..b : IsDigit(t[k])

\* The ways (\d{1,2})[.\-](\d{1,2})[.\-](\d{2,4}) matches at position i, as
\* <<day length, month length, year length>>.
MatchesAt(t, i) ==
    { g \in {1, 2} \X {1, 2} \X {2, 3, 4} :
        LET dl == g[1]
            ml == g[2]
            yl == g[3]
            s1 == i + dl
            m0 == s1 + 1
            s2 == m0 + ml
            y0 == s2 + 1
        IN /\ y0 + yl - 1 <= Len(t)
           /\ AllDigits(t, i, s1 - 1)
           /\ IsSep(t[s1])
           /\ AllDigits(t, m0, s2 - 1)
           /\ IsSep(t[s2])
           /\ AllDigits(t, y0, y0 + yl - 1) }

\* Greedy quantifiers with backtracking: the longest day, then the longest
\* month, then the longest year.
GreedyPick(S) ==
    CHOOSE g \in S : \A h \in S :
        \/ g[1] > h[1]
        \/ g[1] = h[1] /\ g[2] > h[2]
        \/ g[1] = h[1] /\ g[2] = h[2] /\ g[3] >= h[3]

\* re.search: the leftmost position with a match; the groups as
\* <<dd, mm, yy, len(yy)>>, or <<>> when nothing matches.
ReSearch(t) ==
    LET starts == { i \in 1..Len(t) : MatchesAt(t, i) # {} }
    IN IF starts = {} THEN <<>>
       ELSE LET i == CHOOSE k \in starts : \A j \in starts : k <= j
                g == GreedyPick(MatchesAt(t, i))
                m0 == i + g[1] + 1
                y0 == m0 + g[2] + 1
            IN << IntOf(t, i, i + g[1] - 1),
                  IntOf(t, m0, m0 + g[2] - 1),
                  IntOf(t, y0, y0 + g[3] - 1),
                  g[3] >>

IsLeap(y) == (y % 4 = 0 /\ y % 100 # 0) \/ y % 400 = 0

DaysInMonth(y, m) ==
    IF m = 2 THEN (IF IsLeap(y) THEN 29 ELSE 28)
    ELSE IF m \in {4, 6, 9, 11} THEN 30 ELSE 31

\* datetime(y, m, d) does not raise ValueError
ValidDate(y, m, d) ==
    /\ y >= 1 /\ y <= 9999
    /\ m >= 1 /\ m <= 12
    /\ d >= 1 /\ d <= DaysInMonth(y, m)

Pad(n, w) == [k \in 1..w |-> Digits[((n \div (10 ^ (w - k))) % 10) + 1]]

\* date.isoformat(): YYYY-MM-DD, zero padded
IsoFormat(y, m, d) == Pad(y, 4) \o <<"-">> \o Pad(m, 2) \o <<"-">> \o Pad(d, 2)

\* the date_slug of a page title: "" (the empty tuple) when undated
DateSlug(title) ==
    LET g == ReSearch(title)
    IN IF g = <<>> THEN <<>>
       ELSE LET yy == IF g[4] = 2 THEN 2000 + g[3] ELSE g[3]
            IN IF ValidDate(yy, g[2], g[1])
               THEN IsoFormat(yy, g[2], g[1])
               ELSE <<>>


\* the heading texts a fetched page may carry
T_D20 == <<"0", "8", ":", "0", "0", " ", "2", "0", ".", "1", "0", ".", "2", "0", "2", "5">>
T_D19 == <<"1", "9", "-", "1", "0", "-", "2", "5">>
T_BAD == <<"3", "1", ".", "0", "2", ".", "2", "0", "2", "5", " ", "1", ".", "1", ".", "2", "5">>
T_NONE == <<>>
T_OLD == <<"1", ".", "1", ".", "2", "0", "2">>

Titles == {T_D20, T_D19, T_BAD, T_NONE, T_OLD}

\* lines 135-145 on each of these titles
DateSlugOf == [t \in Titles |-> DateSlug(t)]

\* ------------------------------------------------------------------ text
\* A text is a tuple of one-character strings.
\* [ \t]
IsHSpace(c) == c \in {" ", "\t"}

\* \s, and what str.strip() removes
IsSpace(c) == c \in {" ", "\t", "\n"}

RECURSIVE SkipHSpace(_)
SkipHSpace(t) ==
    IF t # <<>> /\ IsHSpace(Head(t)) THEN SkipHSpace(Tail(t)) ELSE t

\* re.sub(r"[ \t]+", " ", t)
RECURSIVE SubHSpace(_)
SubHSpace(t) ==
    IF t = <<>> THEN <<>>
    ELSE IF IsHSpace(Head(t)) THEN <<" ">> \o SubHSpace(SkipHSpace(t))
    ELSE <<Head(t)>> \o SubHSpace(Tail(t))

\* the matches of [ \t]+\n at position i, as the positions of their last character
MatchEndsHorizontal(t, i) ==
    { j \in (i + 1)..Len(t) : t[j] = "\n" /\ \A k \in i..(j - 1) : IsHSpace(t[k]) }

\* the matches of \s+\n at position i, as the positions of their last character
MatchEnds(t, i) ==
    { j \in (i + 1)..Len(t) : t[j] = "\n" /\ \A k \in i..(j - 1) : IsSpace(t[k]) }

\* re.sub(r"\s+\n", "\n", t) from position i on: the leftmost match, as
\* long as the greedy \s+ can make it, is replaced; the scan goes on after it
RECURSIVE SubSpaceNl(_, _)
SubSpaceNl(t, i) ==
    IF i > Len(t) THEN <<>>
    ELSE IF MatchEnds(t, i) = {} THEN <<t[i]>> \o SubSpaceNl(t, i + 1)
    ELSE LET j == CHOOSE e \in MatchEnds(t, i) : \A f \in MatchEnds(t, i) : f <= e
         IN <<"\n">> \o SubSpaceNl(t, j + 1)

\* str.strip()
RECURSIVE Strip(_)
Strip(t) ==
    IF t = <<>> THEN <<>>
    ELSE IF IsSpace(Head(t)) THEN Strip(Tail(t))
    ELSE IF IsSpace(t[Len(t)]) THEN Strip(SubSeq(t, 1, Len(t) - 1))
    ELSE t

\* lines 68-69
clean_text(t) == Strip(SubSpaceNl(SubHSpace(t), 1))

\* The Cyrillic letters of the marker are written with Latin names: "ch" is
\* the small letter che and "CH" the capital one, and so on for y (i), t
\* (te), a, j (short i), e (ie), k (ka), o, zh (zhe).
SmallLetters == <<"ch", "y", "t", "a", "j", "e", "k", "o", "zh">>
CapitalLetters == <<"CH", "Y", "T", "A", "J", "E", "K", "O", "ZH">>

\* the case folding of re.IGNORECASE
ToLower(c) ==
    IF \E i \in 1..Len(CapitalLetters) : CapitalLetters[i] = c
    THEN SmallLetters[CHOOSE i \in 1..Len(CapitalLetters) : CapitalLetters[i] = c]
    ELSE c

\* the pattern of line 80; its group (a|a) has the same letter twice
PATTERN ==
    <<{"CH"}, {"y"}, {"t"}, {"a", "a"}, {"j"}, {"t"}, {"e"}, {" "},
      {"t"}, {"a"}, {"k"}, {"o"}, {"zh"}>>

\* the pattern matches at position i when letter case counts
MarkerAtExactCase(t, i) ==
    /\ i + Len(PATTERN) - 1 <= Len(t)
    /\ \A k \in 1..Len(PATTERN) : t[i + k - 1] \in PATTERN[k]

\* the pattern matches at position i under re.IGNORECASE
MarkerAt(t, i) ==
    /\ i + Len(PATTERN) - 1 <= Len(t)
    /\ \A k \in 1..Len(PATTERN) :
         ToLower(t[i + k - 1]) \in { ToLower(c) : c \in PATTERN[k] }

\* re.split(pattern, txt)[0]: the text before the leftmost match, or all of it
SplitFirst(t) ==
    LET at == { i \in 1..Len(t) : MarkerAt(t, i) }
    IN IF at = {} THEN t
       ELSE SubSeq(t, 1, (CHOOSE i \in at : \A j \in at : i <= j) - 1)

\* "\n".join([p for p in parts if p])
RECURSIVE JoinParts(_)
JoinParts(parts) ==
    IF parts = <<>> THEN <<>>
    ELSE IF Head(parts) = <<>> THEN JoinParts(Tail(parts))
    ELSE LET rest == JoinParts(Tail(parts))
         IN IF rest = <<>> THEN Head(parts) ELSE Head(parts) \o <<"\n">> \o rest

\* lines 71-81 on the texts of the paragraphs
extract_article_text(parts) == clean_text(SplitFirst(JoinParts(parts)))

\* ------------------------------------------------------------ link search
\* line 87 with the test made on the resolved URL
HrefMatchesResolved(h) == h.kind = "frag" \/ h.n \in URLs

\* the test of line 87, made on the raw href: both slug fragments occur in it
HrefMatches(h) == h.kind \in {"abs", "path"} /\ h.n \in URLs

\* urljoin(base_url, href): an absolute href stands for itself, a path is
\* resolved on the site of the base, a reference is attached to the base
UrlJoin(base, h) == IF h.kind = "frag" THEN 0 - base ELSE h.n

RECURSIVE Unique(_, _)
Unique(s, seen) ==
    IF s = <<>> THEN <<>>
    ELSE IF Head(s) \in seen THEN Unique(Tail(s), seen)
    ELSE <<Head(s)>> \o Unique(Tail(s), seen \cup {Head(s)})

RECURSIVE JoinMatching(_, _)
JoinMatching(anchors, base) ==
    IF anchors = <<>> THEN <<>>
    ELSE IF HrefMatches(Head(anchors))
         THEN <<UrlJoin(base, Head(anchors))>> \o JoinMatching(Tail(anchors), base)
         ELSE JoinMatching(Tail(anchors), base)

find_prev_day_links(anchors, base_url) == Unique(JoinMatching(anchors, base_url), {})

\* the anchors of a page that links to the pages in S, in the order of the
\* page: ascending, a reference (-1) first
RECURSIVE Ascending(_)
Ascending(S) ==
    IF S = {} THEN <<>>
    ELSE LET m == CHOOSE x \in S : \A y \in S : x <= y
         IN <<IF m < 0 THEN [kind |-> "frag", n |-> 0] ELSE [kind |-> "abs", n |-> m]>>
              \o Ascending(S \ {m})

\* ------------------------------------------------------------ crawl loop
InSeq(x, s) == \E i \in 1..Len(s) : s[i] = x

\* line 112 without the safety cap
LoopCondNoPageCap(q, r, v) == q # <<>> /\ Len(r) < DAYS_BACK

\* line 112 with <= for <
LoopCondOffByOne(q, r, v) == q # <<>> /\ Len(r) <= DAYS_BACK /\ Cardinality(v) < MAX_PAGES

\* the while condition of line 112
LoopCond(q, r, v) == q # <<>> /\ Len(r) < DAYS_BACK /\ Cardinality(v) < MAX_PAGES

\* line 152 without "u not in visited"
RECURSIVE EnqueueNoVisitedTest(_, _, _)
EnqueueNoVisitedTest(q, v, links) ==
    IF links = <<>> THEN q
    ELSE IF ~InSeq(Head(links), q)
         THEN EnqueueNoVisitedTest(Append(q, Head(links)), v, Tail(links))
         ELSE EnqueueNoVisitedTest(q, v, Tail(links))

\* lines 151-153
\* line 152 without "u not in queue"
RECURSIVE EnqueueNoPendingTest(_, _, _)
EnqueueNoPendingTest(q, v, links) ==
    IF links = <<>> THEN q
    ELSE IF Head(links) \notin v
         THEN EnqueueNoPendingTest(Append(q, Head(links)), v, Tail(links))
         ELSE EnqueueNoPendingTest(q, v, Tail(links))

\* lines 150-153: the queue after the loop over prev_links
RECURSIVE Enqueue(_, _, _)
Enqueue(q, v, links) ==
    IF links = <<>> THEN q
    ELSE IF Head(links) \notin v /\ ~InSeq(Head(links), q)
         THEN Enqueue(Append(q, Head(links)), v, Tail(links))
         ELSE Enqueue(q, v, Tail(links))

\* lines 150-153: the URLs handed to queue.append, in the order of the calls
RECURSIVE Appended(_, _, _)
Appended(q, v, links) ==
    IF links = <<>> THEN <<>>
    ELSE IF Head(links) \notin v /\ ~InSeq(Head(links), q)
         THEN <<Head(links)>> \o Appended(Append(q, Head(links)), v, Tail(links))
         ELSE Appended(q, v, Tail(links))

\* main() without the finally clause
OnRaiseNoFinally == "done"

\* where control goes when the body of the try block raises
OnRaise == "finally"

\* ------------------------------------------------------------ aggregation
\* line 158 without drop_duplicates
DropDuplicatesNone(rs, seen) == rs

RECURSIVE DropDuplicates(_, _)
DropDuplicates(rs, seen) ==
    IF rs = <<>> THEN <<>>
    ELSE IF Head(rs).url \in seen THEN DropDuplicates(Tail(rs), seen)
    ELSE <<Head(rs)>> \o DropDuplicates(Tail(rs), seen \cup {Head(rs).url})

HasDate(r) == Len(r.date_slug) > 0

\* "date_slug" in df.columns and df["date_slug"].str.len().gt(0).any()
AnyDated(df) == Len(df) > 0 /\ \E i \in 1..Len(df) : HasDate(df[i])

\* pd.to_datetime of an ISO date: the day as the number YYYYMMDD
ToDatetime(slug) == IntOf(slug, 1, 4) * 10000 + IntOf(slug, 6, 7) * 100 + IntOf(slug, 9, 10)

\* the days a nanosecond Timestamp can hold: 1677-09-22 .. 2262-04-11
TS_MIN == 16770922
TS_MAX == 22620411

OutOfBounds(slug) == ToDatetime(slug) < TS_MIN \/ ToDatetime(slug) > TS_MAX

\* to_csv after a shift of the Timestamp into the next day
FormatTimestampNextDay(ts) ==
    IsoFormat(ts \div 10000, (ts \div 100) % 100, IF ts % 100 < 28 THEN (ts % 100) + 1 ELSE 1)

\* to_csv of a Timestamp column
FormatTimestamp(ts) == IsoFormat(ts \div 10000, (ts \div 100) % 100, ts % 100)

Head_(s, n) == SubSeq(s, 1, Min(n, Len(s)))

\* sort_values with ascending=True
SortValuesAscending(s) ==
    LET n == Len(s)
        perms == { p \in [1..n -> 1..n] :
                     /\ \A i, j \in 1..n : i # j => p[i] # p[j]
                     /\ \A i \in 1..n : i < n => s[p[i]].date_slug <= s[p[i + 1]].date_slug }
    IN { [i \in 1..n |-> s[p[i]]] : p \in perms }

\* sort_values(ascending=False) with the default kind "quicksort", which is
\* not stable: every arrangement with the dates descending
SortValues(s) ==
    LET n == Len(s)
        perms == { p \in [1..n -> 1..n] :
                     /\ \A i, j \in 1..n : i # j => p[i] # p[j]
                     /\ \A i \in 1..n : i < n => s[p[i]].date_slug >= s[p[i + 1]].date_slug }
    IN { [i \in 1..n |-> s[p[i]]] : p \in perms }

\* lines 158-166: the values `out` can take
Aggregated(rs) ==
    LET df == DropDuplicates(rs, {})
    IN IF AnyDated(df)
       THEN LET df_valid == SelectSeq(df, HasDate)
                conv == [i \in 1..Len(df_valid) |->
                            [df_valid[i] EXCEPT !.date_slug = ToDatetime(@)]]
            IN { Head_(s, DAYS_BACK) : s \in SortValues(conv) }
       ELSE { Head_(df, DAYS_BACK) }

\* line 162 raises OutOfBoundsDatetime: pandas 2 converts to nanosecond
\* Timestamps and a date outside their range is an error (errors="raise")
ConversionRaises(rs) ==
    LET df == DropDuplicates(rs, {})
    IN AnyDated(df) /\ \E i \in 1..Len(df) : HasDate(df[i]) /\ OutOfBounds(df[i].date_slug)

\* line 168: the rows of the file; a Timestamp is written as YYYY-MM-DD
ToCsv(o, dated) ==
    IF dated
    THEN [i \in 1..Len(o) |-> [o[i] EXCEPT !.date_slug = FormatTimestamp(@)]]
    ELSE o


\* ------------------------------------------------------------ the pages
\* The names of the URLs other than START_URL are arbitrary, so a page that
\* links to k bulletins the crawl has not met yet links to the k smallest
\* unmet URLs.  Beside them a page may link to a bulletin the crawl already
\* knows (itself, the seed, the next pending one), to some other page (0) or
\* to a place of itself (-1).
Known == visited \cup { queue[i] : i \in 1..Len(queue) }

Unmet == URLs \ Known

Smallest(S, k) == { x \in S : Cardinality({ y \in S : y < x }) < k }

BackLinks ==
    { {}, {0}, {0 - 1}, {url}, {START_URL} } \cup (IF queue = <<>> THEN {} ELSE { {Head(queue)} })

AnchorLists ==
    { Ascending(B \cup Smallest(Unmet, k)) :
        B \in BackLinks, k \in 0..Min(MaxAnchors, Cardinality(Unmet)) }

\* ------------------------------------------------------------ main()
Init ==
    /\ pc = "start"
    /\ session = "none"
    /\ quits = 0
    /\ rows = <<>>
    /\ visited = {}
    /\ queue = <<>>
    /\ url = 0
    /\ navlog = <<>>
    /\ failed = {}
    /\ refound = FALSE
    /\ waited = "none"
    /\ err = "none"
    /\ out = <<>>
    /\ csv = <<>>
    /\ saved = FALSE
    /\ pass = 0
    /\ first = <<>>
    /\ enqlog = <<>>
    /\ slept = FALSE
    /\ arg = <<>>
    /\ ret = <<>>

\* lines 107-111: the session is acquired, then the frontier is set up
MakeDriver ==
    /\ pc = "start"
    /\ session' = "open"
    /\ queue' = <<START_URL>>
    /\ pc' = "while"
    /\ enqlog' = <<START_URL>>
    /\ UNCHANGED <<quits, rows, visited, url, navlog, failed, refound, waited,
                   err, out, csv, saved, pass, first,
                   slept, arg, ret>>

\* line 107 raises: main() is left before the try block is entered
MakeDriverFails ==
    /\ pc = "start"
    /\ err' = "make_driver"
    /\ pc' = "aborted"
    /\ UNCHANGED <<session, quits, rows, visited, queue, url, navlog, failed,
                   refound, waited, out, csv, saved, pass, first,
                   enqlog, slept, arg, ret>>

\* lines 112-116 without visited.add(url)
DequeueNoMark ==
    /\ pc = "while"
    /\ LoopCond(queue, rows, visited)
    /\ url' = Head(queue)
    /\ queue' = Tail(queue)
    /\ pc' = (IF Head(queue) \in visited THEN "while" ELSE "get")
    /\ waited' = "none"
    /\ UNCHANGED <<session, quits, rows, visited, navlog, failed, refound,
                   err, out, csv, saved, pass, first,
                   enqlog, slept, arg, ret>>

\* lines 112-116 with queue.pop() for queue.pop(0)
DequeueLifo ==
    /\ pc = "while"
    /\ LoopCond(queue, rows, visited)
    /\ url' = queue[Len(queue)]
    /\ queue' = SubSeq(queue, 1, Len(queue) - 1)
    /\ IF queue[Len(queue)] \in visited
       THEN pc' = "while" /\ UNCHANGED visited
       ELSE pc' = "get" /\ visited' = visited \cup {queue[Len(queue)]}
    /\ waited' = "none"
    /\ UNCHANGED <<session, quits, rows, navlog, failed, refound,
                   err, out, csv, saved, pass, first,
                   enqlog, slept, arg, ret>>

\* lines 112-116: the loop test, the pop, the visited test
Dequeue ==
    /\ pc = "while"
    /\ LoopCond(queue, rows, visited)
    /\ url' = Head(queue)
    /\ queue' = Tail(queue)
    /\ IF Head(queue) \in visited
       THEN pc' = "while" /\ UNCHANGED visited
       ELSE pc' = "get" /\ visited' = visited \cup {Head(queue)}
    /\ waited' = "none"
    /\ UNCHANGED <<session, quits, rows, navlog, failed, refound,
                   err, out, csv, saved, pass, first,
                   enqlog, slept, arg, ret>>

\* lines 118-122 with the URL put back for another try
NavFailsRetry ==
    /\ pc = "get"
    /\ session = "open"
    /\ navlog' = Append(navlog, url)
    /\ failed' = failed \cup {url}
    /\ queue' = Append(queue, url)
    /\ pc' = "while"
    /\ slept' = FALSE
    /\ UNCHANGED <<session, quits, rows, visited, url, refound, waited,
                   err, out, csv, saved, pass, first,
                   enqlog, arg, ret>>

\* lines 118-122: driver.get raises; warn and continue
NavFails ==
    /\ pc = "get"
    /\ session = "open"
    /\ navlog' = Append(navlog, url)
    /\ failed' = failed \cup {url}
    /\ pc' = "while"
    /\ slept' = FALSE
    /\ UNCHANGED <<session, quits, rows, visited, queue, url, refound, waited,
                   err, out, csv, saved, pass, first,
                   enqlog, arg, ret>>

\* lines 118-130: driver.get returns, page_source raises (the browser is gone)
PageSourceRaises ==
    /\ pc = "get"
    /\ session = "open"
    /\ navlog' = Append(navlog, url)
    /\ \E w \in {"ready", "timeout"} : waited' = w
    /\ err' = "page_source"
    /\ pc' = OnRaise
    /\ slept' = FALSE
    /\ UNCHANGED <<session, quits, rows, visited, queue, url, failed, refound,
                   out, csv, saved, pass, first,
                   enqlog, arg, ret>>

\* lines 118-155 on a page with the given heading and anchors: the page is
\* read, parsed, recorded and its links enqueued; then the pacing delay of
\* line 155
FetchAs(title, anchors) ==
    /\ pc = "get"
    /\ session = "open"
    /\ navlog' = Append(navlog, url)
    /\ \E w \in {"ready", "timeout"} : waited' = w
    /\ LET res == [url |-> url, title |-> title, date_slug |-> DateSlugOf[title]]
           prev_links == find_prev_day_links(anchors, url)
       IN /\ rows' = Append(rows, res)
          /\ queue' = Enqueue(queue, visited, prev_links)
          /\ enqlog' = enqlog \o Appended(queue, visited, prev_links)
          /\ refound' = (refound \/ \E i \in 1..Len(prev_links) :
                          prev_links[i] \in visited \/ InSeq(prev_links[i], queue))
    /\ slept' = TRUE
    /\ pc' = "while"
    /\ UNCHANGED <<session, quits, visited, url, failed, err, out, csv, saved,
                   pass, first, arg, ret>>

\* lines 118-155: the page served may be any page
Fetch ==
    /\ pc = "get"
    /\ \E title \in Titles, anchors \in AnchorLists : FetchAs(title, anchors)

\* line 112: the loop condition is false
LoopExit ==
    /\ pc = "while"
    /\ ~LoopCond(queue, rows, visited)
    /\ pc' = "aggregate"
    /\ waited' = "none"
    /\ UNCHANGED <<session, quits, rows, visited, queue, url, navlog, failed,
                   refound, err, out, csv, saved, pass, first,
                   enqlog, slept, arg, ret>>

\* lines 158-169: deduplicate, select, sort, truncate, save
Aggregate ==
    /\ pc = "aggregate"
    /\ ~ConversionRaises(rows)
    /\ \E o \in Aggregated(rows) :
         /\ out' = o
         /\ csv' = ToCsv(o, AnyDated(DropDuplicates(rows, {})))
    /\ saved' = TRUE
    /\ pass' = 1
    /\ pc' = "finally"
    /\ UNCHANGED <<session, quits, rows, visited, queue, url, navlog, failed,
                   refound, waited, err, first,
                   enqlog, slept, arg, ret>>

\* lines 158-162: pd.to_datetime raises on a date no Timestamp can hold
AggregateRaises ==
    /\ pc = "aggregate"
    /\ ConversionRaises(rows)
    /\ err' = "to_datetime"
    /\ pc' = OnRaise
    /\ UNCHANGED <<session, quits, rows, visited, queue, url, navlog, failed,
                   refound, waited, out, csv, saved, pass, first,
                   enqlog, slept, arg, ret>>

\* lines 171-172: driver.quit()
Quit ==
    /\ pc = "finally"
    /\ session' = "closed"
    /\ quits' = quits + 1
    /\ pc' = "done"
    /\ UNCHANGED <<rows, visited, queue, url, navlog, failed, refound, waited,
                   err, out, csv, saved, pass, first,
                   enqlog, slept, arg, ret>>

Next ==
    \/ MakeDriver
    \/ MakeDriverFails
    \/ Dequeue
    \/ NavFails
    \/ PageSourceRaises
    \/ Fetch
    \/ LoopExit
    \/ Aggregate
    \/ AggregateRaises
    \/ Quit

Spec == Init /\ [][Next]_vars

\* the scheduling of a sequential program: a step that can be taken is taken
FairSpec == Spec /\ WF_vars(Next)


\* ------------------------------------------------ the aggregator on its own
\* Lines 158-168 applied to any sequence of rows, duplicates of a URL
\* included.  The URLs of a sequence are numbered in the order of their
\* first occurrence.
AggRecords == [url : 1..MaxRows, title : Titles]

FirstSeenOrder(s) ==
    \A i \in 1..Len(s) : s[i].url = 1 \/ \E j \in 1..(i - 1) : s[j].url = s[i].url - 1

AggInputs ==
    { [i \in 1..Len(s) |->
         [url |-> s[i].url, title |-> s[i].title, date_slug |-> DateSlugOf[s[i].title]]] :
       s \in { t \in UNION { [1..n -> AggRecords] : n \in 0..MaxRows } : FirstSeenOrder(t) } }

InitAgg ==
    /\ pc = "aggregate"
    /\ session = "open"
    /\ quits = 0
    /\ rows \in AggInputs
    /\ visited = {}
    /\ queue = <<>>
    /\ url = 0
    /\ navlog = <<>>
    /\ failed = {}
    /\ refound = FALSE
    /\ waited = "none"
    /\ err = "none"
    /\ out = <<>>
    /\ csv = <<>>
    /\ saved = FALSE
    /\ pass = 0
    /\ first = <<>>
    /\ enqlog = <<>>
    /\ slept = FALSE
    /\ arg = <<>>
    /\ ret = <<>>

\* lines 158-168 once more, on the rows that were saved
AggregateAgain ==
    /\ pc = "done"
    /\ saved
    /\ pass = 1
    /\ ~ConversionRaises(csv)
    /\ first' = csv
    /\ \E o \in Aggregated(csv) :
         /\ out' = o
         /\ csv' = ToCsv(o, AnyDated(DropDuplicates(csv, {})))
    /\ pass' = 2
    /\ UNCHANGED <<pc, session, quits, rows, visited, queue, url, navlog, failed,
                   refound, waited, err, saved,
                   enqlog, slept, arg, ret>>

NextAgg ==
    \/ Aggregate
    \/ AggregateRaises
    \/ Quit
    \/ AggregateAgain

SpecAgg == InitAgg /\ [][NextAgg]_vars


\* ------------------------------------------------ the crawl of a fixed site
\* A site of DAYS_BACK + 1 bulletins in which every fetch succeeds.  Page i
\* links to some of the next two pages; its heading has no date or one of
\* two dates.
Pages == 1..(DAYS_BACK + 1)

SiteTitles == {T_NONE, T_D20, T_D19}

Sites ==
    { [i \in Pages |-> [title |-> t[i], anchors |-> Ascending(l[i])]] :
        t \in [Pages -> SiteTitles],
        l \in { f \in [Pages -> SUBSET Pages] :
                  \A i \in Pages : f[i] \subseteq {i + 1, i + 2} } }

InitSite ==
    /\ pc = "start"
    /\ session = "none"
    /\ quits = 0
    /\ rows = <<>>
    /\ visited = {}
    /\ queue = <<>>
    /\ url = 0
    /\ navlog = <<>>
    /\ failed = {}
    /\ refound = FALSE
    /\ waited = "none"
    /\ err = "none"
    /\ out = <<>>
    /\ csv = <<>>
    /\ saved = FALSE
    /\ pass = 0
    /\ first = <<>>
    /\ enqlog = <<>>
    /\ slept = FALSE
    /\ arg \in Sites
    /\ ret = <<>>

\* lines 118-155: the page served is the page of the site at url
FetchPage == FetchAs(arg[url].title, arg[url].anchors)

NextSite ==
    \/ MakeDriver
    \/ Dequeue
    \/ FetchPage
    \/ LoopExit
    \/ Aggregate
    \/ Quit

SpecSite == InitSite /\ [][NextSite]_vars


\* ------------------------------------------- the functions on their own
\* A function of the module is applied to one argument: arg is the argument,
\* ret the value returned, and main() does not run.
NoCrawl ==
    /\ session = "none"
    /\ quits = 0
    /\ rows = <<>>
    /\ visited = {}
    /\ queue = <<>>
    /\ url = 0
    /\ navlog = <<>>
    /\ failed = {}
    /\ refound = FALSE
    /\ waited = "none"
    /\ err = "none"
    /\ out = <<>>
    /\ csv = <<>>
    /\ saved = FALSE
    /\ pass = 0
    /\ first = <<>>
    /\ enqlog = <<>>
    /\ slept = FALSE

crawlvars == <<session, quits, rows, visited, queue, url, navlog, failed, refound,
               waited, err, out, csv, saved, pass, first, enqlog, slept>>

\* Headings for lines 134-145: some text, a day, a separator, a month, a
\* separator, a year, some text.
TitlePre == {<<>>, <<"3">>, <<"3", "1", ".", "0", "2", ".", "2", "0", "2", "5", " ">>}
TitleDay == {<<"1">>, <<"2", "0">>, <<"3", "1">>, <<"2", "9">>}
TitleSep == {<<".">>, <<"-">>, <<":">>}
TitleMonth == {<<"1">>, <<"1", "0">>, <<"0", "2">>, <<"1", "3">>}
TitleYear == {<<"5">>, <<"2", "5">>, <<"2", "0", "2">>, <<"2", "0", "2", "5">>, <<"2", "0", "2", "5", "5">>, <<"1", "9", "0", "0">>, <<"0", "0">>}
TitlePost == {<<>>, <<" ", "1", ".", "1", ".", "2", "5">>}

DateInputs ==
    { a \o d \o s1 \o m \o s2 \o y \o z :
        a \in TitlePre, d \in TitleDay, s1 \in TitleSep, m \in TitleMonth,
        s2 \in TitleSep, y \in TitleYear, z \in TitlePost }

InitDate ==
    /\ pc = "call"
    /\ NoCrawl
    /\ arg \in DateInputs
    /\ ret = <<>>

\* lines 134-145: the date_slug of a heading
ExtractDate ==
    /\ pc = "call"
    /\ ret' = DateSlug(arg)
    /\ pc' = "return"
    /\ UNCHANGED <<crawlvars, arg>>

NextDate == ExtractDate

SpecDate == InitDate /\ [][NextDate]_vars

\* Pages for lines 83-94: up to MaxAnchors anchors, each the absolute URL or
\* the path of one of two bulletins, the URL of another page, or a
\* reference; the page itself is one of the two bulletins.
LinkHrefs == { h \in Hrefs : h.n <= START_URL + 1 }

LinkInputs ==
    [base_url : {START_URL, START_URL + 1},
     anchors : UNION { [1..n -> LinkHrefs] : n \in 0..MaxAnchors }]

InitLinks ==
    /\ pc = "call"
    /\ NoCrawl
    /\ arg \in LinkInputs
    /\ ret = <<>>

\* lines 83-94: the related links of a page
FindPrevDayLinks ==
    /\ pc = "call"
    /\ ret' = find_prev_day_links(arg.anchors, arg.base_url)
    /\ pc' = "return"
    /\ UNCHANGED <<crawlvars, arg>>

NextLinks == FindPrevDayLinks

SpecLinks == InitLinks /\ [][NextLinks]_vars

\* Texts for lines 68-69: every text of up to MaxText characters out of a
\* letter, a space, a tab and a newline, and the text "a   b\t\tc \n\n d".
TextChars == {"a", " ", "\t", "\n"}

T_SPACED ==
    <<"a", " ", " ", " ", "b", "\t", "\t", "c", " ", "\n", "\n", " ", "d">>

TextInputs == UNION { [1..n -> TextChars] : n \in 0..MaxText } \cup {T_SPACED}

InitClean ==
    /\ pc = "call"
    /\ NoCrawl
    /\ arg \in TextInputs
    /\ ret = <<>>

\* lines 68-69: the text normalized
CleanText ==
    /\ pc = "call"
    /\ ret' = clean_text(arg)
    /\ pc' = "return"
    /\ UNCHANGED <<crawlvars, arg>>

NextClean == CleanText

SpecClean == InitClean /\ [][NextClean]_vars

\* Paragraphs for lines 71-81: nothing, a word, the marker as it is written
\* in the pattern, the marker in capitals inside a sentence, the marker with
\* two spaces, and its two words on their own.
P_WORD == <<"x">>
P_MARKER == <<"CH", "y", "t", "a", "j", "t", "e", " ", "t", "a", "k", "o", "zh">>
P_CAPITALS == <<"x", " ", "CH", "Y", "T", "A", "J", "T", "E", " ", "T", "A", "K", "O", "ZH", ":", " ", "x">>
P_TWO_SPACES == <<"ch", "y", "t", "a", "j", "t", "e", " ", " ", "t", "a", "k", "o", "zh">>
P_FIRST_WORD == <<"CH", "y", "t", "a", "j", "t", "e">>
P_SECOND_WORD == <<"t", "a", "k", "o", "zh", " ", "x">>

Paragraphs == {<<>>, P_WORD, P_MARKER, P_CAPITALS, P_TWO_SPACES, P_FIRST_WORD, P_SECOND_WORD}

PartsInputs == UNION { [1..n -> Paragraphs] : n \in 0..MaxParts }

InitExtract ==
    /\ pc = "call"
    /\ NoCrawl
    /\ arg \in PartsInputs
    /\ ret = <<>>

\* lines 71-81: the body text of a page
ExtractArticleText ==
    /\ pc = "call"
    /\ ret' = extract_article_text(arg)
    /\ pc' = "return"
    /\ UNCHANGED <<crawlvars, arg>>

NextExtract == ExtractArticleText

SpecExtract == InitExtract /\ [][NextExtract]_vars


\* ================================================================ claims
Count(s, x) == Cardinality({ i \in 1..Len(s) : s[i] = x })

QueueSet == { queue[i] : i \in 1..Len(queue) }

\* C1: a navigation request is issued for any URL at most once in a run,
\* however often the URL is found among the related links of the pages.
C1_NavigatedAtMostOnce == \A u \in URLs : Count(navlog, u) <= 1

\* a finished run in which some page linked to a URL already visited or pending
C1_Witness == pc = "done" /\ err = "none" /\ refound /\ Len(navlog) >= 2

\* C2: no URL is both visited and pending.
C2_VisitedPendingDisjoint == visited \cap QueueSet = {}

C2_Witness == refound /\ visited # {} /\ queue # <<>>

\* C3: there are never more than DAYS_BACK output records nor more than
\* MAX_PAGES visited URLs.
C3_Caps == Len(rows) <= DAYS_BACK /\ Cardinality(visited) <= MAX_PAGES

\* both caps are met in one run
C3_Witness == Len(rows) = DAYS_BACK /\ Cardinality(visited) = MAX_PAGES

ExitCondition ==
    \/ queue = <<>>
    \/ Len(rows) = DAYS_BACK
    \/ Cardinality(visited) = MAX_PAGES

\* C4: the run ends; when the loop is left by its condition, pending is empty
\* or the output holds DAYS_BACK records or MAX_PAGES URLs are visited; and no
\* URL is dequeued in a state where one of the three holds.
C4_Terminates ==
    /\ <>(pc \in {"done", "aborted"})
    /\ [](pc = "aggregate" => ExitCondition)
    /\ [][(pc = "while" /\ pc' # "aggregate") => ~ExitCondition]_vars

\* the safety cap alone stops the loop: URLs are pending, records are missing
C4_Witness ==
    /\ pc = "aggregate"
    /\ Cardinality(visited) = MAX_PAGES
    /\ queue # <<>>
    /\ Len(rows) < DAYS_BACK

\* C5: a failed navigation leaves the URL visited, adds no record, enqueues
\* nothing, is not repeated, and the loop goes on to its next test.
C5_NavFailure ==
    /\ [](\A u \in failed :
            /\ u \in visited
            /\ Count(navlog, u) = 1
            /\ \A i \in 1..Len(rows) : rows[i].url # u)
    /\ [][failed' # failed =>
            /\ url \in visited'
            /\ url \in failed'
            /\ rows' = rows
            /\ queue' = queue
            /\ err' = err
            /\ pc' = "while"]_vars

\* after a failed navigation another URL was fetched and recorded
C5_Witness ==
    \E i \in 1..Len(navlog) :
        /\ navlog[i] \in failed
        /\ \E j \in (i + 1)..Len(navlog) : \E k \in 1..Len(rows) : rows[k].url = navlog[j]

\* C6: once the session is acquired, the run goes through aggregation and
\* export and ends without an unhandled error (the browser dying while a
\* page is read set aside).
C6_NoFatalError == (pc = "done" /\ err # "page_source") => (err = "none" /\ saved)

\* C7: an acquired session is terminated exactly once on every exit path,
\* and nothing is fetched after it.
C7_SessionReleased ==
    /\ [](/\ quits <= 1
          /\ (pc = "done" => quits = 1 /\ session = "closed")
          /\ (pc = "aborted" => quits = 0 /\ session = "none")
          /\ (session = "closed" => pc = "done"))
    /\ [][session = "closed" => navlog' = navlog]_vars

\* the run ended by an unhandled error and the session was terminated
C7_Witness == pc = "done" /\ err # "none" /\ quits = 1 /\ session = "closed"

FirstOcc(rs) == { i \in 1..Len(rs) : \A j \in 1..(i - 1) : rs[j].url # rs[i].url }

DatedFirst(rs) == { i \in FirstOcc(rs) : rs[i].date_slug # <<>> }

Nth(S, k) == CHOOSE x \in S : Cardinality({ y \in S : y < x }) = k - 1

\* the position in rs of a saved row
Origin(rs, r) == CHOOSE i \in FirstOcc(rs) : rs[i].url = r.url

DatedResult(rs, c) ==
    /\ Len(c) = Min(DAYS_BACK, Cardinality(DatedFirst(rs)))
    /\ \A k \in 1..Len(c) : \E i \in DatedFirst(rs) : c[k] = rs[i]
    /\ \A k, l \in 1..Len(c) : k # l => c[k].url # c[l].url
    /\ \A k, l \in 1..Len(c) :
         k < l => ToDatetime(c[k].date_slug) >= ToDatetime(c[l].date_slug)
    /\ \A i \in DatedFirst(rs) :
         (\A k \in 1..Len(c) : c[k] # rs[i]) =>
            \A k \in 1..Len(c) : ToDatetime(c[k].date_slug) >= ToDatetime(rs[i].date_slug)

TiesInDiscoveryOrder(rs, c) ==
    /\ \A k, l \in 1..Len(c) :
         (k < l /\ c[k].date_slug = c[l].date_slug) => Origin(rs, c[k]) < Origin(rs, c[l])
    /\ \A i \in DatedFirst(rs) :
         (\A k \in 1..Len(c) : c[k] # rs[i]) =>
            \A k \in 1..Len(c) :
               c[k].date_slug = rs[i].date_slug => Origin(rs, c[k]) < i

C9_UndatedResult ==
    (saved /\ pass = 1 /\ \A i \in 1..Len(rows) : rows[i].date_slug = <<>>) =>
        /\ Len(csv) = Min(DAYS_BACK, Cardinality(FirstOcc(rows)))
        /\ \A k \in 1..Len(csv) : csv[k] = rows[Nth(FirstOcc(rows), k)]

\* undated rows, one URL twice, and one row with a title
C9_Witness ==
    /\ saved /\ pass = 1
    /\ \A i \in 1..Len(rows) : rows[i].date_slug = <<>>
    /\ Cardinality(FirstOcc(rows)) = DAYS_BACK
    /\ Len(rows) > DAYS_BACK
    /\ rows[2].url = rows[1].url
    /\ rows[2].title # rows[1].title

NoEqualDates(c) ==
    \A k, l \in 1..Len(c) :
        (k # l /\ c[k].date_slug # <<>>) => c[k].date_slug # c[l].date_slug

AllReachedNoFailure ==
    /\ pc = "done"
    /\ err \notin {"make_driver", "page_source"}
    /\ failed = {}
    /\ queue = <<>>
    /\ Cardinality(visited) <= DAYS_BACK

\* every page fetched has a date, and no two have the same one
DistinctDates(rs) ==
    /\ \A i \in 1..Len(rs) : rs[i].date_slug # <<>>
    /\ \A i, j \in 1..Len(rs) : i # j => rs[i].date_slug # rs[j].date_slug

\* the file holds one row for each URL of S, the dates strictly descending
OneRowPerPage(c, S) ==
    /\ Len(c) = Cardinality(S)
    /\ { c[i].url : i \in 1..Len(c) } = S
    /\ \A i \in 1..(Len(c) - 1) : ToDatetime(c[i].date_slug) > ToDatetime(c[i + 1].date_slug)

\* C11: when no more pages than the target count can be reached, every fetch
\* succeeds and the pages have distinct parseable dates, the file written at
\* the end holds exactly one row for each page, sorted by date descending.
C11_OneRowPerPage ==
    (AllReachedNoFailure /\ DistinctDates(rows)) => (saved /\ OneRowPerPage(csv, visited))

\* C11 for dates a Timestamp can hold: the same pages give the file of C11
C11_InRange ==
    (AllReachedNoFailure /\ DistinctDates(rows)
       /\ \A i \in 1..Len(rows) : ~OutOfBounds(rows[i].date_slug))
    => (saved /\ OneRowPerPage(csv, visited))

\* two pages reached and fetched, both dated, and the file written
C11_InRangeWitness ==
    AllReachedNoFailure /\ DistinctDates(rows) /\ Len(rows) = 2 /\ saved

\* the pages of the site that can be reached from START_URL
RECURSIVE ReachFrom(_, _)
ReachFrom(site, S) ==
    LET T == S \cup { u \in Pages : \E p \in S : \E k \in 1..Len(site[p].anchors) :
                        site[p].anchors[k] = [kind |-> "abs", n |-> u] }
    IN IF T = S THEN S ELSE ReachFrom(site, T)

Reachable(site) == ReachFrom(site, {START_URL})

\* the dates of the reachable pages that have one
ReachableDates(site) ==
    { DateSlugOf[site[p].title] : p \in { q \in Reachable(site) : DateSlugOf[site[q].title] # <<>> } }

\* the n latest dates of D
Latest(D, n) == { d \in D : Cardinality({ e \in D : ToDatetime(e) > ToDatetime(d) }) < n }

\* C12: when no fetch fails and the pages that can be reached carry at least
\* DAYS_BACK distinct dates, the file written holds exactly DAYS_BACK rows,
\* all dated, with the DAYS_BACK latest dates of the reachable pages, also
\* when undated pages are reachable and visited on the way.
C12_MostRecentDated ==
    (pc = "done" /\ Cardinality(ReachableDates(arg)) >= DAYS_BACK)
    => /\ saved
       /\ Len(csv) = DAYS_BACK
       /\ \A i \in 1..Len(csv) : csv[i].date_slug # <<>>
       /\ { csv[i].date_slug : i \in 1..Len(csv) } = Latest(ReachableDates(arg), DAYS_BACK)

\* The substrings of t of the form day, separator, month, separator, year
\* with a day and a month of one or two digits and a year whose length is in
\* YL, as <<start, day length, month length, year length>>.
DateLike(t, YL) ==
    { m \in (1..Len(t)) \X {1, 2} \X {1, 2} \X YL :
        LET s1 == m[1] + m[2]
            s2 == s1 + 1 + m[3]
            e == s2 + m[4]
        IN /\ e <= Len(t)
           /\ \A k \in (m[1]..e) \ {s1, s2} : IsDigit(t[k])
           /\ t[s1] \in {".", "-"}
           /\ t[s2] \in {".", "-"} }

\* the first of them: the leftmost, and there the longest
FirstDateLike(t, YL) ==
    CHOOSE m \in DateLike(t, YL) : \A n \in DateLike(t, YL) :
        m[1] < n[1] \/ (m[1] = n[1] /\ m[4] >= n[4])

\* the date the first such substring stands for, when it is a calendar date
ClaimedDate(t, YL) ==
    IF DateLike(t, YL) = {} THEN <<>>
    ELSE LET m == FirstDateLike(t, YL)
             s1 == m[1] + m[2]
             s2 == s1 + 1 + m[3]
             d == IntOf(t, m[1], s1 - 1)
             mo == IntOf(t, s1 + 1, s2 - 1)
             y0 == IntOf(t, s2 + 1, s2 + m[4])
             y == IF m[4] = 2 THEN 2000 + y0 ELSE y0
         IN IF ValidDate(y, mo, d) THEN IsoFormat(y, mo, d) ELSE <<>>

\* C13 as stated: the date of a heading is the date of its first substring
\* day[.-]month[.-]year with a year of exactly 2 or 4 digits, when that is a
\* valid calendar date, and the heading is undated in every other case.
C13_YearOf2Or4Digits == pc = "return" => ret = ClaimedDate(arg, {2, 4})

\* What lines 134-145 compute instead: the same with a year of 2 to 4 digits,
\* a 3-digit year being taken as it is written.
C13_YearOf2To4Digits == pc = "return" => ret = ClaimedDate(arg, {2, 3, 4})

\* a heading whose first date has a 3-digit year, returned dated
C13_ThreeDigitYear ==
    /\ pc = "return"
    /\ ret # <<>>
    /\ DateLike(arg, {2, 3, 4}) # {}
    /\ FirstDateLike(arg, {2, 3, 4})[4] = 3

\* a heading whose first date is no calendar date and whose second one is,
\* returned undated
C13_InvalidFirst ==
    /\ pc = "return"
    /\ ret = <<>>
    /\ Cardinality({ m[1] : m \in DateLike(arg, {2, 3, 4}) }) >= 2

\* the URLs popped from the queue so far, in the order of the pops
Dequeued == navlog \o (IF pc = "get" THEN <<url>> ELSE <<>>)

NoRepeat(s) == \A i, j \in 1..Len(s) : i # j => s[i] # s[j]

\* the URLs appended by the step, when the step appends some
NewlyAppended == SubSeq(enqlog', Len(enqlog) + 1, Len(enqlog'))

\* C14: URLs are fetched in the order in which they were appended to the
\* pending queue (the URLs popped so far, followed by the pending ones, are
\* the URLs appended so far, in that order); a URL that is visited or pending
\* is not appended again; the links of one page are appended in the order
\* they are first seen on the page (pages list their anchors in ascending
\* order here).
C14_Fifo ==
    /\ [](enqlog = Dequeued \o queue /\ NoRepeat(enqlog))
    /\ [][ /\ Len(enqlog') >= Len(enqlog)
           /\ SubSeq(enqlog', 1, Len(enqlog)) = enqlog
           /\ \A i, j \in 1..Len(NewlyAppended) :
                i < j => NewlyAppended[i] < NewlyAppended[j] ]_vars

\* three URLs were fetched in turn, a page linked to a known URL again, and
\* URLs are still pending
C14_Witness ==
    /\ refound
    /\ Len(navlog) >= 3
    /\ Len(queue) >= 2
    /\ \E i \in 1..Len(rows) : rows[i].url # START_URL

\* both slug fragments occur in the absolute URL u: u is the URL of a
\* bulletin, with or without a fragment or query after it
SlugsInUrl(u) == u # 0

\* both slug fragments occur in the href as it is written
SlugsInHref(h) == h.kind # "frag" /\ h.n # 0

\* the resolved forms of the anchors at the positions I, each once, in the
\* order of their first position in I
ResolvedOnce(anchors, base, I) ==
    LET r == [i \in 1..Len(anchors) |-> UrlJoin(base, anchors[i])]
        keep == { i \in I : \A j \in I : j < i => r[j] # r[i] }
    IN [k \in 1..Cardinality(keep) |-> r[Nth(keep, k)]]

\* C15 as stated: the related links are the hrefs whose resolved form holds
\* both slug fragments, resolved, each once, in first-seen order; a relative
\* href that holds both fragments only once resolved is among them.
C15_TestOnResolved ==
    pc = "return" =>
        ret = ResolvedOnce(arg.anchors, arg.base_url,
                { i \in 1..Len(arg.anchors) : SlugsInUrl(UrlJoin(arg.base_url, arg.anchors[i])) })

\* C15: the related links are the hrefs that, as written in the page, hold
\* both slug fragments; they are returned resolved against the source URL,
\* each resolved URL once, in the order of first appearance.  A href that
\* holds both fragments only once resolved (such as "#top" on a bulletin) is
\* not among them.
C15_TestOnRaw ==
    pc = "return" =>
        ret = ResolvedOnce(arg.anchors, arg.base_url,
                { i \in 1..Len(arg.anchors) : SlugsInHref(arg.anchors[i]) })

\* a page with a reference to itself, and with the path and the absolute URL
\* of one bulletin, of which one link is returned
C15_Witness ==
    /\ pc = "return"
    /\ Len(ret) = 1
    /\ \E i, j, k \in 1..Len(arg.anchors) :
         /\ arg.anchors[i].kind = "frag"
         /\ arg.anchors[j].kind = "path"
         /\ arg.anchors[k] = [kind |-> "abs", n |-> arg.anchors[j].n]

\* the positions of the characters of t that are not whitespace
Marks(t) == { i \in 1..Len(t) : t[i] \notin {" ", "\t", "\n"} }

\* the characters of t that are not whitespace, in order
Letters(t) == [k \in 1..Cardinality(Marks(t)) |-> t[Nth(Marks(t), k)]]

\* the whitespace between the k-th and the next character that is not whitespace
Gap(t, k) == SubSeq(t, Nth(Marks(t), k) + 1, Nth(Marks(t), k + 1) - 1)

Newlines(g) == Cardinality({ i \in 1..Len(g) : g[i] = "\n" })

\* no whitespace at either end
Trimmed(t) == t = <<>> \/ ({1, Len(t)} \subseteq Marks(t))

\* C16 as stated: clean_text trims the text, leaves no run of spaces and
\* tabs other than a single space, and keeps between two characters that are
\* not whitespace as many newlines as the input has there.
C16_NewlinesKept ==
    pc = "return" =>
        /\ Letters(ret) = Letters(arg)
        /\ Trimmed(ret)
        /\ \A i \in 1..Len(ret) : ret[i] # "\t"
        /\ \A i \in 1..(Len(ret) - 1) : ~(ret[i] = " " /\ ret[i + 1] = " ")
        /\ \A k \in 1..(Cardinality(Marks(arg)) - 1) :
             Newlines(Gap(ret, k)) = Newlines(Gap(arg, k))

\* what becomes of the whitespace g between two characters
CleanGap(g) ==
    IF g = <<>> THEN <<>>
    ELSE IF Newlines(g) = 0 THEN <<" ">>
    ELSE IF g[Len(g)] = "\n" THEN <<"\n">>
    ELSE <<"\n", " ">>

\* C16: clean_text trims the text and keeps its characters that are not
\* whitespace; between two of them a run of spaces and tabs becomes a single
\* space, and whitespace that holds newlines becomes a single newline (so
\* blank lines go, and so do the spaces and tabs before the last newline),
\* followed by one space when spaces or tabs follow the last newline.
C16_CleanText ==
    pc = "return" =>
        /\ Letters(ret) = Letters(arg)
        /\ Trimmed(ret)
        /\ \A k \in 1..(Cardinality(Marks(arg)) - 1) : Gap(ret, k) = CleanGap(Gap(arg, k))

\* a text with a blank line between two characters, returned with a single
\* newline there
C16_Witness ==
    /\ pc = "return"
    /\ \E k \in 1..(Cardinality(Marks(arg)) - 1) :
         Newlines(Gap(arg, k)) >= 2 /\ Gap(ret, k) = <<"\n">>

\* clean_text("a   b\t\tc \n\n d") = "a b c\n d"
C16_Example ==
    (pc = "return" /\ arg = T_SPACED) =>
        ret = <<"a", " ", "b", " ", "c", "\n", " ", "d">>

\* the letters of the marker phrase, and the capital of each
MarkerLetters == <<"ch", "y", "t", "a", "j", "t", "e", " ", "t", "a", "k", "o", "zh">>
MarkerCapitals == <<"CH", "Y", "T", "A", "J", "T", "E", " ", "T", "A", "K", "O", "ZH">>

\* the marker phrase stands at position i of t, in any letter case
Occurs(t, i) ==
    /\ i + 12 <= Len(t)
    /\ \A k \in 1..13 : t[i + k - 1] \in {MarkerLetters[k], MarkerCapitals[k]}

Occurrences(t) == { i \in 1..Len(t) : Occurs(t, i) }

\* C17: when the joined text of the paragraphs holds the marker phrase, in
\* any letter case, the body text returned is the normalization of the text
\* strictly before the first occurrence; when it does not, it is the
\* normalization of the whole text.
C17_Truncation ==
    pc = "return" =>
        LET txt == JoinParts(arg)
        IN IF Occurrences(txt) = {} THEN ret = clean_text(txt)
           ELSE \E i \in Occurrences(txt) :
                  /\ \A j \in Occurrences(txt) : i <= j
                  /\ ret = clean_text(SubSeq(txt, 1, i - 1))

\* a text that holds the marker twice, the first time in capitals after some
\* words: only the words before it are returned
C17_Witness ==
    /\ pc = "return"
    /\ Cardinality(Occurrences(JoinParts(arg))) >= 2
    /\ arg[1] = P_WORD
    /\ arg[2] = P_CAPITALS
    /\ ret = <<"x", "\n", "x">>

\* a text that holds the two words of the marker in two paragraphs, or with
\* two spaces between them, is returned whole
C17_NoMarker ==
    /\ pc = "return"
    /\ Occurrences(JoinParts(arg)) = {}
    /\ \E i \in 1..Len(arg) : arg[i] \in {P_TWO_SPACES, P_FIRST_WORD}
    /\ Len(ret) > 13

\* the step issues a navigation request that is not the first of the run
NextRequest == navlog' # navlog /\ navlog # <<>>

\* C18: between any two consecutive navigation requests the pacing delay is
\* made, whether the earlier request succeeded or failed.
C18_PacedRequests == [][NextRequest => slept]_vars

\* C18 for the requests that follow a fetch that succeeded: the delay was
\* made; after a request that failed it was not
C18_PacedAfterSuccess ==
    [][NextRequest => (slept <=> navlog[Len(navlog)] \notin failed)]_vars

\* C19: the records have pairwise distinct URLs, each of them visited, and
\* the pending queue holds no URL twice; so the URL popped is never one that
\* is visited already (the branch of lines 114-115 is not taken) and
\* drop_duplicates removes no record of the crawl.
C19_NoDuplicates ==
    /\ [](/\ \A i, j \in 1..Len(rows) : i # j => rows[i].url # rows[j].url
          /\ \A i \in 1..Len(rows) : rows[i].url \in visited
          /\ NoRepeat(queue)
          /\ DropDuplicates(rows, {}) = rows)
    /\ [][(pc = "while" /\ queue' # queue) => (url' \notin visited /\ pc' = "get")]_vars

\* the loop is over with two records, after a page linked to a URL that was
\* visited or pending, and with a URL still pending
C19_Witness ==
    /\ pc = "aggregate"
    /\ refound
    /\ Len(rows) >= 2
    /\ queue # <<>>

\* C20: whenever the loop condition is evaluated, the visited URLs are as
\* many as the records and the failed navigations together; so the loop ends
\* on the safety cap with fewer records than the target count only after
\* more than MAX_PAGES - DAYS_BACK failures, and never without a failure.
C20_VisitedCount ==
    /\ pc = "while" => Cardinality(visited) = Len(rows) + Cardinality(failed)
    /\ (pc = "aggregate" /\ Cardinality(visited) >= MAX_PAGES /\ Len(rows) < DAYS_BACK)
         => Cardinality(failed) > MAX_PAGES - DAYS_BACK
    /\ (pc = "aggregate" /\ failed = {}) => Cardinality(visited) < MAX_PAGES

\* the loop ended on the safety cap with a pending URL and one record only
C20_Witness ==
    /\ pc = "aggregate"
    /\ Cardinality(visited) = MAX_PAGES
    /\ Len(rows) = DAYS_BACK - 1
    /\ Cardinality(failed) = MAX_PAGES - DAYS_BACK + 1
    /\ queue # <<>>

====
